---------------------------- MODULE Spec2Model ----------------------------
(***************************************************************************)
(* Model of the blackjack rules engine: Card / RuleSet / Hand / Player.    *)
(*                                                                         *)
(* A Hand is the record [cards, bet, state] of src/src/hand.rs.  Every     *)
(* step of the model is one call of a Hand method (hand.rs) or of the      *)
(* corresponding Player function (play.rs) on a hand of the player.  A     *)
(* call whose assertion fails panics: it leaves the hand as it was and is  *)
(* recorded as rejected.                                                   *)
(*                                                                         *)
(* No operation on a hand reads another hand: it reads the hand, the rule  *)
(* set and the number of hands the player holds.  The model therefore      *)
(* follows one hand at a time (after a split, either of the two hands)     *)
(* and counts the others.                                                  *)
(*                                                                         *)
(* Bets are f64 in the source.  Every bet operation of the program is a    *)
(* copy, a doubling or a halving, all exact in binary floating point, so   *)
(* a bet is modelled as a whole number of units of 2^-MaxHalvings.         *)
(***************************************************************************)
EXTENDS Integers, Sequences, FiniteSets, TLC

----------------------------------------------------------------------------
(* Bounds of the model *)

\* a hand is dealt cards up to this many
MaxCards == 3

\* the player holds up to this many hands
MaxHeld == 3

\* a bet of 1.0 can be halved this many times inside the model
MaxHalvings == 1

\* a bet of 1.0 can be doubled this many times inside the model
MaxDoublings == 1

\* a shoe is built of up to this many decks
MaxDecks == 2

\* a hand whose lower total is above 21 already is hit up to this many
\* times more
MaxBustHits == 1

\* the bet 1.0, in units
One == 2 ^ MaxHalvings

\* the largest bet the model lets a doubling reach
BetCap == One * (2 ^ MaxDoublings)

----------------------------------------------------------------------------
(* card.rs *)

Suits == {"Clubs", "Diamonds", "Hearts", "Spades"}

Ranks == {"Ace", "Two", "Three", "Four", "Five", "Six", "Seven", "Eight",
          "Nine", "Ten", "Jack", "Queen", "King"}

\* the variants in the order of their declaration
SuitOrder == <<"Clubs", "Diamonds", "Hearts", "Spades">>

RankOrder == <<"Ace", "Two", "Three", "Four", "Five", "Six", "Seven", "Eight",
               "Nine", "Ten", "Jack", "Queen", "King">>

Card_new(suit, rank) == [suit |-> suit, rank |-> rank]

\* impl TryFrom<u8> for Suit
Suit_try_from(value) ==
    CASE value = 0 -> [ok |-> TRUE, value |-> "Clubs"]
      [] value = 1 -> [ok |-> TRUE, value |-> "Diamonds"]
      [] value = 2 -> [ok |-> TRUE, value |-> "Hearts"]
      [] value = 3 -> [ok |-> TRUE, value |-> "Spades"]
      [] OTHER -> [ok |-> FALSE, err |-> "ParseSuitError"]

\* impl TryFrom<u8> for Rank
Rank_try_from(value) ==
    CASE value = 0 -> [ok |-> TRUE, value |-> "Ace"]
      [] value = 1 -> [ok |-> TRUE, value |-> "Two"]
      [] value = 2 -> [ok |-> TRUE, value |-> "Three"]
      [] value = 3 -> [ok |-> TRUE, value |-> "Four"]
      [] value = 4 -> [ok |-> TRUE, value |-> "Five"]
      [] value = 5 -> [ok |-> TRUE, value |-> "Six"]
      [] value = 6 -> [ok |-> TRUE, value |-> "Seven"]
      [] value = 7 -> [ok |-> TRUE, value |-> "Eight"]
      [] value = 8 -> [ok |-> TRUE, value |-> "Nine"]
      [] value = 9 -> [ok |-> TRUE, value |-> "Ten"]
      [] value = 10 -> [ok |-> TRUE, value |-> "Jack"]
      [] value = 11 -> [ok |-> TRUE, value |-> "Queen"]
      [] value = 12 -> [ok |-> TRUE, value |-> "King"]
      [] OTHER -> [ok |-> FALSE, err |-> "ParseRankError"]

\* impl TryFrom<u8> for Card testing bit 7 alone
Card_try_from_top_bit(value) ==
    IF value \div 128 # 0
    THEN [ok |-> FALSE, err |-> "ParseCardError"]
    ELSE LET suit == Suit_try_from(value % 4)
             rank == Rank_try_from((value \div 4) % 16)
         IN  IF ~suit.ok THEN suit
             ELSE IF ~rank.ok THEN rank
             ELSE [ok |-> TRUE, value |-> [suit |-> suit.value, rank |-> rank.value]]

\* impl TryFrom<u8> for Card, value a u8: value & 0b1100_0000 is nonzero
\* when value \div 64 is, value & 0b0000_0011 is value % 4, and
\* (value & 0b0011_1100) >> 2 is (value \div 4) % 16; each ? returns the
\* error of the conversion it follows
Card_try_from(value) ==
    IF value \div 64 # 0
    THEN [ok |-> FALSE, err |-> "ParseCardError"]
    ELSE LET suit == Suit_try_from(value % 4)
             rank == Rank_try_from((value \div 4) % 16)
         IN  IF ~suit.ok THEN suit
             ELSE IF ~rank.ok THEN rank
             ELSE [ok |-> TRUE, value |-> [suit |-> suit.value, rank |-> rank.value]]

\* the values of a u8
Bytes == 0..255

\* the cards the shoe deals in the model
DrawCards == { Card_new("Clubs", "Ace"),
               Card_new("Hearts", "Ten") }

\* the cards of the hands first dealt in the model
DealCards == DrawCards \cup { Card_new("Diamonds", "Six") }

----------------------------------------------------------------------------
(* deck.rs.  A Deck is its stack, a sequence of cards whose last element   *)
(* is the card drawn next.  Deck::shuffle, a uniformly random permutation  *)
(* of the stack, is not part of the model.                                 *)

SINGLE_DECK_SIZE == 52

\* Deck::new_shoe: the bytes 0..51, cycled, the first SINGLE_DECK_SIZE *
\* decks of them decoded (unwrap panics on no byte below 52)
new_shoe(decks) ==
    [ k \in 1..(SINGLE_DECK_SIZE * decks) |-> Card_try_from((k - 1) % 52).value ]

\* Deck::draw taking the card at the front of the stack
Deck_draw_front(s) ==
    IF s = <<>>
    THEN [stack |-> s, ret |-> [some |-> FALSE]]
    ELSE [stack |-> Tail(s), ret |-> [some |-> TRUE, card |-> Head(s)]]

\* Deck::draw, Vec::pop: the stack afterwards and the Option returned
Deck_draw(s) ==
    IF s = <<>>
    THEN [stack |-> s, ret |-> [some |-> FALSE]]
    ELSE [stack |-> SubSeq(s, 1, Len(s) - 1),
          ret |-> [some |-> TRUE, card |-> s[Len(s)]]]

cards_left(s) == Len(s)

\* the match of Deck::mega_true_count leaving the Ace out
count_step_no_ace(rank) ==
    CASE rank \in {"Two", "Three", "Four", "Five", "Six"} -> 1
      [] rank \in {"Ten", "Jack", "Queen", "King"} -> 0 - 1
      [] OTHER -> 0

\* the match of Deck::mega_true_count: what a card of the rank adds
count_step(rank) ==
    CASE rank = "Ace" -> 0 - 1
      [] rank = "Two" -> 1
      [] rank = "Three" -> 1
      [] rank = "Four" -> 1
      [] rank = "Five" -> 1
      [] rank = "Six" -> 1
      [] rank = "Ten" -> 0 - 1
      [] rank = "Jack" -> 0 - 1
      [] rank = "Queen" -> 0 - 1
      [] rank = "King" -> 0 - 1
      [] OTHER -> 0

\* the loop of Deck::mega_true_count over the cards s[lo..hi], summed by
\* halves (addition of i64 is associative where it does not overflow)
RECURSIVE count_range(_, _, _)
count_range(s, lo, hi) ==
    IF lo > hi THEN 0
    ELSE IF lo = hi THEN count_step(s[lo].rank)
    ELSE LET mid == (lo + hi) \div 2
         IN  count_range(s, lo, mid) + count_range(s, mid + 1, hi)

\* Deck::mega_true_count
mega_true_count(s) == count_range(s, 1, Len(s))

----------------------------------------------------------------------------
(* rule.rs *)

\* Vec::contains on the allow-list
Contains(list, v) == \E k \in 1..Len(list) : list[k] = v

RuleSet_new(decks, players, min_bet, max_bet, shuffle_kind, dealer_on_soft_17, blackjack_payout, double_down_whitelist, max_hands, can_play_slit_aces, das, can_surrender) ==
    IF decks = 0 THEN [ok |-> FALSE, err |-> "InvalidDeckNumer"]
    ELSE IF players = 0 THEN [ok |-> FALSE, err |-> "InvalidPlayerNumber"]
    ELSE IF min_bet = 0 THEN [ok |-> FALSE, err |-> "InvalidBetRange"]
    ELSE IF min_bet > max_bet THEN [ok |-> FALSE, err |-> "InvalidBetRange"]
    ELSE IF max_hands < 2 THEN [ok |-> FALSE, err |-> "InvalidMaxHands"]
    ELSE IF \E k \in 1..Len(double_down_whitelist) :
                double_down_whitelist[k] < 3 \/ double_down_whitelist[k] > 20
         THEN [ok |-> FALSE, err |-> "InvalidDoubleDownWhitelist"]
    ELSE [ok |-> TRUE,
          value |-> [decks |-> decks,
                     players |-> players,
                     min_bet |-> min_bet,
                     max_bet |-> max_bet,
                     shuffle_kind |-> shuffle_kind,
                     dealer_on_soft_17 |-> dealer_on_soft_17,
                     blackjack_payout |-> blackjack_payout,
                     double_down_whitelist |-> double_down_whitelist,
                     max_hands |-> max_hands,
                     can_play_slit_aces |-> can_play_slit_aces,
                     das |-> das,
                     can_surrender |-> can_surrender]]

\* hand.rs and play.rs read the das field as rules.can_dd_after_split()
can_dd_after_split(r) == r.das

\* the allow-lists the model builds rule sets with
WhiteLists == { <<>>, <<11, 12>> }

\* the max_hands values the model builds rule sets with
MaxHandsInputs == {2}

\* the rule sets RuleSet::new returns for the model's inputs
RuleSets ==
    { res.value : res \in
        { r \in { RuleSet_new(1, 1, One, BetCap, "Continuous", "H17",
                              (3 * One) \div 2, wl, mh, psa, d, sur) :
                    wl \in WhiteLists, mh \in MaxHandsInputs,
                    psa \in BOOLEAN, d \in BOOLEAN, sur \in BOOLEAN }
            : r.ok } }

----------------------------------------------------------------------------
(* hand.rs *)

Hand_new(cards, bet, state) == [cards |-> cards, bet |-> bet, state |-> state]

is_terminal(h) ==
    CASE h.state = "Fresh" -> FALSE
      [] h.state = "Split" -> FALSE
      [] h.state = "SpltA" -> TRUE
      [] h.state = "Stand" -> TRUE
      [] h.state = "Busts" -> TRUE
      [] h.state = "DDown" -> TRUE
      [] h.state = "Srndr" -> TRUE

is_hard(h) == \A k \in 1..Len(h.cards) : h.cards[k].rank # "Ace"

\* the match of the hard branch of Hand::value (an Ace panics there)
HardPoints(rank) ==
    CASE rank = "Two" -> 2
      [] rank = "Three" -> 3
      [] rank = "Four" -> 4
      [] rank = "Five" -> 5
      [] rank = "Six" -> 6
      [] rank = "Seven" -> 7
      [] rank = "Eight" -> 8
      [] rank = "Nine" -> 9
      [] rank \in {"Ten", "Jack", "Queen", "King"} -> 10

\* the match of the soft branch counting an Ace as 11
SoftPoints_ace_eleven(rank) ==
    CASE rank = "Ace" -> 11
      [] rank = "Two" -> 2
      [] rank = "Three" -> 3
      [] rank = "Four" -> 4
      [] rank = "Five" -> 5
      [] rank = "Six" -> 6
      [] rank = "Seven" -> 7
      [] rank = "Eight" -> 8
      [] rank = "Nine" -> 9
      [] rank \in {"Ten", "Jack", "Queen", "King"} -> 10

\* the match of the soft branch of Hand::value
SoftPoints(rank) ==
    CASE rank = "Ace" -> 1
      [] rank = "Two" -> 2
      [] rank = "Three" -> 3
      [] rank = "Four" -> 4
      [] rank = "Five" -> 5
      [] rank = "Six" -> 6
      [] rank = "Seven" -> 7
      [] rank = "Eight" -> 8
      [] rank = "Nine" -> 9
      [] rank \in {"Ten", "Jack", "Queen", "King"} -> 10

RECURSIVE HardSum(_)
HardSum(cards) ==
    IF cards = <<>> THEN 0
    ELSE HardPoints(Head(cards).rank) + HardSum(Tail(cards))

RECURSIVE SoftSum(_)
SoftSum(cards) ==
    IF cards = <<>> THEN 0
    ELSE SoftPoints(Head(cards).rank) + SoftSum(Tail(cards))

value(h) ==
    IF is_hard(h)
    THEN [kind |-> "Hard", lower |-> HardSum(h.cards), upper |-> HardSum(h.cards)]
    ELSE [kind |-> "Soft", lower |-> SoftSum(h.cards), upper |-> SoftSum(h.cards) + 10]

\* is_bust reading the upper total of a soft hand
is_bust_on_upper(h) ==
    IF value(h).kind = "Hard" THEN value(h).lower > 21 ELSE value(h).upper > 21

is_bust(h) ==
    IF value(h).kind = "Hard" THEN value(h).lower > 21 ELSE value(h).lower > 21

can_hit(h) == ~is_terminal(h)

\* the body of Hand::hit after its assertion
Hand_hit(h, added_card) ==
    LET pushed == [h EXCEPT !.cards = Append(h.cards, added_card)]
    IN  IF is_bust(pushed) THEN [pushed EXCEPT !.state = "Busts"] ELSE pushed

can_stand(h) == ~is_terminal(h)

\* the body of Hand::stand after its assertion
Hand_stand(h) == [h EXCEPT !.state = "Stand"]

\* the look-up of Hand::can_double_down reading the lower total alone
hand_values_lower_only(h) == <<value(h).lower>>

\* the values Hand::can_double_down looks up in the allow-list
hand_values(h) ==
    IF value(h).kind = "Hard" THEN <<value(h).lower>>
    ELSE <<value(h).lower, value(h).upper>>

can_double_down(h, r) ==
    IF is_terminal(h) THEN FALSE
    ELSE IF ~can_dd_after_split(r) /\ h.state = "Split" THEN FALSE
    ELSE \E k \in 1..Len(hand_values(h)) :
            Contains(r.double_down_whitelist, hand_values(h)[k])

\* the body of Hand::double_down after its assertion
Hand_double_down(h) == [h EXCEPT !.bet = h.bet * 2, !.state = "DDown"]

\* Hand::split storing its bet argument in the hand itself as well
Hand_split_rebet(h, card1, card2, bet, lock_aces) ==
    LET popped == h.cards[Len(h.cards)]
        kept   == Append(SubSeq(h.cards, 1, Len(h.cards) - 1), card1)
        state  == IF lock_aces THEN "SpltA" ELSE "Split"
    IN  << [h EXCEPT !.cards = kept, !.bet = bet, !.state = state],
           [cards |-> <<popped, card2>>, bet |-> bet, state |-> state] >>

\* Hand::split popping the last card without pushing card1 in its place
Hand_split_no_push(h, card1, card2, bet, lock_aces) ==
    LET popped == h.cards[Len(h.cards)]
        kept   == SubSeq(h.cards, 1, Len(h.cards) - 1)
        state  == IF lock_aces THEN "SpltA" ELSE "Split"
    IN  << [h EXCEPT !.cards = kept, !.state = state],
           [cards |-> <<popped, card2>>, bet |-> bet, state |-> state] >>

\* Hand::split: <<the hand itself afterwards, the hand returned>>
Hand_split(h, card1, card2, bet, lock_aces) ==
    LET popped == h.cards[Len(h.cards)]
        kept   == Append(SubSeq(h.cards, 1, Len(h.cards) - 1), card1)
        state  == IF lock_aces THEN "SpltA" ELSE "Split"
    IN  << [h EXCEPT !.cards = kept, !.state = state],
           [cards |-> <<popped, card2>>, bet |-> bet, state |-> state] >>

can_surrender(h, r) ==
    IF is_terminal(h) THEN FALSE
    ELSE IF r.can_surrender THEN TRUE ELSE FALSE

\* Hand::surrender (the bet is halved exactly)
Hand_surrender(h) == [h EXCEPT !.state = "Srndr", !.bet = h.bet \div 2]

----------------------------------------------------------------------------
(* play.rs *)

can_hit_hand(h) == ~is_terminal(h)

\* the body of Player::hit after its assertion
Player_hit(h, added_card) == Hand_new(Append(h.cards, added_card), h.bet, h.state)

can_stand_hand(h) == ~is_terminal(h)

\* the body of Player::stand after its assertion
Player_stand(h) == Hand_new(h.cards, h.bet, "Stand")

\* hands_len: self.hands.len()
can_split_hand(hands_len, r, h) ==
    IF Len(h.cards) # 2 THEN FALSE
    ELSE IF h.cards[1].rank # h.cards[2].rank THEN FALSE
    ELSE IF hands_len >= r.max_hands THEN FALSE
    ELSE TRUE

\* the state Player::split gives both hands
split_state(h, r) ==
    IF h.cards[1].rank = "Ace" /\ ~r.can_play_slit_aces THEN "SpltA" ELSE "Split"

\* the body of Player::split after its assertions: the two hands returned
Player_split(h, r, card1, card2) ==
    << Hand_new(<<h.cards[1], card1>>, h.bet, split_state(h, r)),
       Hand_new(<<h.cards[2], card2>>, h.bet, split_state(h, r)) >>

can_surrender_hand(h, r) ==
    IF is_terminal(h) THEN FALSE
    ELSE IF ~r.can_surrender THEN FALSE
    ELSE TRUE

\* the body of Player::surrender after its assertion
Player_surrender(h) == Hand_new(h.cards, h.bet, "Srndr")

can_double_down_hand(h, r) ==
    IF is_terminal(h) THEN FALSE
    ELSE IF h.state = "Split" /\ ~can_dd_after_split(r) THEN FALSE
    ELSE IF value(h).kind = "Hard"
         THEN Contains(r.double_down_whitelist, value(h).lower)
         ELSE \/ Contains(r.double_down_whitelist, value(h).lower)
              \/ Contains(r.double_down_whitelist, value(h).upper)

\* the body of Player::double_down_hand after its assertions
Player_double_down_hand(h, added_bet) == Hand_new(h.cards, h.bet + added_bet, "DDown")

----------------------------------------------------------------------------
(* The state *)

VARIABLES
    rules,      \* the RuleSet of the table (Player.rules)
    hands,      \* the hands of the player that the model follows: the hand
                \* last operated on (changed by the call, or as it was
                \* when the call panicked), or the two hands of the split
                \* just made
    hands_len,  \* the number of hands the player holds (Player.hands.len())
    outcome     \* the last call: what was called, through which type, on
                \* which of the hands followed, with which arguments, and
                \* whether it was accepted or panicked

vars == <<rules, hands, hands_len, outcome>>

\* The state of the other types, which no Hand or Player operation reads
\* or writes: they have specifications of their own further down.
VARIABLES
    stack,      \* the cards of the shoe, the draw end last (Deck.stack)
    drawn,      \* the cards drawn from the shoe so far, in order
    arg,        \* the argument of the last call of RuleSet::new,
                \* Card::try_from or Deck::new_shoe
    ret         \* what the last call of RuleSet::new, Card::try_from or
                \* Deck::draw returned

others == <<stack, drawn, arg, ret>>

\* no shoe, no call yet
Idle == stack = <<>> /\ drawn = <<>> /\ arg = "none" /\ ret = "none"

NoCard == [suit |-> "none", rank |-> "none"]

\* the bets a caller passes as second_bet / added_bet / bet
BetInputs == {One \div 2, One}

\* the record of a call of operation op, through the Hand method or the
\* Player function, on the hand at index i; of a call that panicked it
\* keeps the one argument an assertion reads, the bet
Call(op, via, i, ok, c1, c2, bet, lock) ==
    IF ok
    THEN [op |-> op, via |-> via, i |-> i, ok |-> TRUE,
          c1 |-> c1, c2 |-> c2, bet |-> bet, lock |-> lock]
    ELSE [op |-> op, via |-> via, i |-> i, ok |-> FALSE,
          c1 |-> NoCard, c2 |-> NoCard, bet |-> bet, lock |-> FALSE]

Init ==
    /\ rules \in RuleSets
    /\ \E c1 \in DealCards, c2 \in DealCards :
          hands = << Hand_new(<<c1, c2>>, One, "Fresh") >>
    /\ hands_len = 1
    /\ outcome = Call("new", "Hand", 1, TRUE, NoCard, NoCard, One, FALSE)
    /\ Idle

\* hand.hit(added_card)
HandHit(i, c) ==
    LET h == hands[i] IN
    /\ can_hit(h) => Len(h.cards) < MaxCards
    /\ hands' = IF can_hit(h) THEN << Hand_hit(h, c) >> ELSE << h >>
    /\ outcome' = Call("hit", "Hand", i, can_hit(h), c, NoCard, 0, FALSE)
    /\ UNCHANGED <<rules, hands_len, others>>

\* Player::hit(hand, added_card)
PlayerHit(i, c) ==
    LET h == hands[i] IN
    /\ can_hit_hand(h) => Len(h.cards) < MaxCards
    /\ hands' = IF can_hit_hand(h) THEN << Player_hit(h, c) >> ELSE << h >>
    /\ outcome' = Call("hit", "Player", i, can_hit_hand(h), c, NoCard, 0, FALSE)
    /\ UNCHANGED <<rules, hands_len, others>>

\* hand.stand(): the assertion is on can_hit
HandStand(i) ==
    LET h == hands[i] IN
    /\ hands' = IF can_hit(h) THEN << Hand_stand(h) >> ELSE << h >>
    /\ outcome' = Call("stand", "Hand", i, can_hit(h), NoCard, NoCard, 0, FALSE)
    /\ UNCHANGED <<rules, hands_len, others>>

\* Player::stand(hand): the assertion is on can_hit_hand
PlayerStand(i) ==
    LET h == hands[i] IN
    /\ hands' = IF can_hit_hand(h) THEN << Player_stand(h) >> ELSE << h >>
    /\ outcome' = Call("stand", "Player", i, can_hit_hand(h), NoCard, NoCard, 0, FALSE)
    /\ UNCHANGED <<rules, hands_len, others>>

\* hand.double_down(): the assertion is on is_terminal alone
HandDoubleDown(i) ==
    LET h == hands[i] IN
    /\ ~is_terminal(h) => h.bet * 2 <= BetCap
    /\ hands' = IF ~is_terminal(h) THEN << Hand_double_down(h) >> ELSE << h >>
    /\ outcome' = Call("double_down", "Hand", i, ~is_terminal(h), NoCard, NoCard, 0, FALSE)
    /\ UNCHANGED <<rules, hands_len, others>>

\* player.double_down_hand(hand, added_bet)
PlayerDoubleDown(i, added_bet) ==
    LET h  == hands[i]
        ok == can_double_down_hand(h, rules) /\ h.bet = added_bet
    IN
    /\ ok => h.bet + added_bet <= BetCap
    /\ hands' = IF ok THEN << Player_double_down_hand(h, added_bet) >> ELSE << h >>
    /\ outcome' = Call("double_down", "Player", i, ok, NoCard, NoCard, added_bet, FALSE)
    /\ UNCHANGED <<rules, hands_len, others>>

\* hand.split(card1, card2, bet, lock_aces): no assertion; the player holds
\* the hand returned as one hand more
HandSplit(i, c1, c2, bet, lock) ==
    LET h == hands[i] IN
    /\ hands_len < MaxHeld
    /\ hands' = Hand_split(h, c1, c2, bet, lock)
    /\ hands_len' = hands_len + 1
    /\ outcome' = Call("split", "Hand", i, TRUE, c1, c2, bet, lock)
    /\ UNCHANGED <<rules, others>>

\* player.split(hand, second_bet, card1, card2): the two hands returned
\* take the place of the hand split
PlayerSplit(i, second_bet, c1, c2) ==
    LET h  == hands[i]
        ok == can_split_hand(hands_len, rules, h) /\ h.bet = second_bet
    IN
    /\ ok => hands_len < MaxHeld
    /\ hands' = IF ok THEN Player_split(h, rules, c1, c2) ELSE << h >>
    /\ hands_len' = IF ok THEN hands_len + 1 ELSE hands_len
    /\ outcome' = Call("split", "Player", i, ok, c1, c2, second_bet, FALSE)
    /\ UNCHANGED <<rules, others>>

\* hand.surrender(): no assertion
HandSurrender(i) ==
    LET h == hands[i] IN
    /\ h.bet % 2 = 0
    /\ hands' = << Hand_surrender(h) >>
    /\ outcome' = Call("surrender", "Hand", i, TRUE, NoCard, NoCard, 0, FALSE)
    /\ UNCHANGED <<rules, hands_len, others>>

\* player.surrender(hand)
PlayerSurrender(i) ==
    LET h == hands[i] IN
    /\ hands' = IF can_surrender_hand(h, rules) THEN << Player_surrender(h) >> ELSE << h >>
    /\ outcome' = Call("surrender", "Player", i, can_surrender_hand(h, rules),
                       NoCard, NoCard, 0, FALSE)
    /\ UNCHANGED <<rules, hands_len, others>>

Next ==
    \E i \in 1..Len(hands) :
        \/ \E c \in DrawCards : HandHit(i, c)
        \/ \E c \in DrawCards : PlayerHit(i, c)
        \/ HandStand(i)
        \/ PlayerStand(i)
        \/ HandDoubleDown(i)
        \/ \E b \in BetInputs : PlayerDoubleDown(i, b)
        \/ \E c1 \in DrawCards, c2 \in DrawCards, b \in BetInputs, lock \in BOOLEAN :
              HandSplit(i, c1, c2, b, lock)
        \/ \E c1 \in DrawCards, c2 \in DrawCards, b \in BetInputs :
              PlayerSplit(i, b, c1, c2)
        \/ HandSurrender(i)
        \/ PlayerSurrender(i)

Spec == Init /\ [][Next]_<<vars, others>>

TypeOK ==
    /\ rules \in RuleSets
    /\ Len(hands) \in 1..2
    /\ hands_len \in 1..MaxHeld
    /\ \A i \in 1..Len(hands) :
          /\ Len(hands[i].cards) \in 2..MaxCards
          /\ hands[i].bet \in 1..BetCap

----------------------------------------------------------------------------
(* Hand::value over every rank: hands of cards of all thirteen ranks, hit  *)
(* and split through the Hand methods.                                     *)

\* one card of each rank
ValueCards == { Card_new("Clubs", RankOrder[k]) : k \in 1..Len(RankOrder) }

\* the one rule set of this specification (Hand::hit and Hand::split read
\* none)
ValueRules ==
    RuleSet_new(1, 1, One, BetCap, "Continuous", "H17", (3 * One) \div 2,
                <<11, 12>>, 2, TRUE, TRUE, TRUE).value

InitValue ==
    /\ rules = ValueRules
    /\ \E c1 \in ValueCards, c2 \in ValueCards :
          hands = << Hand_new(<<c1, c2>>, One, "Fresh") >>
    /\ hands_len = 1
    /\ outcome = Call("new", "Hand", 1, TRUE, NoCard, NoCard, One, FALSE)
    /\ Idle

NextValue ==
    \E i \in 1..Len(hands) :
        \/ \E c \in ValueCards : HandHit(i, c)
        \/ \E c1 \in DrawCards, c2 \in DrawCards : HandSplit(i, c1, c2, One, FALSE)

SpecValue == InitValue /\ [][NextValue]_<<vars, others>>

----------------------------------------------------------------------------
(* Hitting one hand for as long as it can be hit: from a non-terminal hand *)
(* of two cards, nothing but hit is called, through Hand or Player.        *)

\* the cards among cards[3..] that were added to a lower total above 21
BustHits(cards) ==
    Cardinality({ k \in 3..Len(cards) : SoftSum(SubSeq(cards, 1, k - 1)) > 21 })

InitHit ==
    /\ rules = ValueRules
    /\ \E c1 \in DealCards, c2 \in DealCards, st \in {"Fresh", "Split"} :
          hands = << Hand_new(<<c1, c2>>, One, st) >>
    /\ hands_len = 1
    /\ outcome = Call("new", "Hand", 1, TRUE, NoCard, NoCard, One, FALSE)
    /\ Idle

\* hand.hit(c), on a hand of any number of cards
HandHitAgain(c) ==
    LET h == hands[1] IN
    /\ can_hit(h) => BustHits(Append(h.cards, c)) <= MaxBustHits
    /\ hands' = IF can_hit(h) THEN << Hand_hit(h, c) >> ELSE << h >>
    /\ outcome' = Call("hit", "Hand", 1, can_hit(h), c, NoCard, 0, FALSE)
    /\ UNCHANGED <<rules, hands_len, others>>

\* Player::hit(hand, c), on a hand of any number of cards
PlayerHitAgain(c) ==
    LET h == hands[1] IN
    /\ can_hit_hand(h) => BustHits(Append(h.cards, c)) <= MaxBustHits
    /\ hands' = IF can_hit_hand(h) THEN << Player_hit(h, c) >> ELSE << h >>
    /\ outcome' = Call("hit", "Player", 1, can_hit_hand(h), c, NoCard, 0, FALSE)
    /\ UNCHANGED <<rules, hands_len, others>>

NextHit ==
    \/ \E c \in DealCards : HandHitAgain(c)
    \/ \E c \in DealCards : PlayerHitAgain(c)

SpecHit == InitHit /\ [][NextHit]_<<vars, others>>

----------------------------------------------------------------------------
(* RuleSet::new over valid and invalid arguments.                          *)

\* no player and no hand: the state of Hand and Player in the
\* specifications of the other types
NoPlayer == rules = "none" /\ hands = <<>> /\ hands_len = 0 /\ outcome = "none"

\* ret before the call
NotCalled == [ok |-> FALSE, err |-> "NotCalled"]

\* the arguments the model calls RuleSet::new with (the rest are fixed)
RuleInputs ==
    [ decks : {0, 1, 2},
      players : {0, 1},
      min_bet : {0 - One, 0, One, 2 * One},
      max_bet : {One},
      double_down_whitelist : { <<>>, <<11, 12>>, <<3, 20>>, <<2>>, <<11, 21>> },
      max_hands : {1, 2} ]

InitRules ==
    /\ NoPlayer
    /\ stack = <<>> /\ drawn = <<>>
    /\ arg \in RuleInputs
    /\ ret = NotCalled

\* RuleSet::new(arg.decks, arg.players, ...)
NewRuleSet ==
    /\ ret = NotCalled
    /\ ret' = RuleSet_new(arg.decks, arg.players, arg.min_bet, arg.max_bet,
                          "Continuous", "H17", (3 * One) \div 2,
                          arg.double_down_whitelist, arg.max_hands,
                          TRUE, TRUE, TRUE)
    /\ UNCHANGED <<vars, stack, drawn, arg>>

SpecRules == InitRules /\ [][NewRuleSet]_<<vars, others>>

----------------------------------------------------------------------------
(* Card::try_from over every byte.                                         *)

InitCard ==
    /\ NoPlayer
    /\ stack = <<>> /\ drawn = <<>>
    /\ arg \in Bytes
    /\ ret = NotCalled

\* Card::try_from(arg)
CardTryFrom ==
    /\ ret = NotCalled
    /\ ret' = Card_try_from(arg)
    /\ UNCHANGED <<vars, stack, drawn, arg>>

SpecCard == InitCard /\ [][CardTryFrom]_<<vars, others>>

----------------------------------------------------------------------------
(* A shoe and the draws from it.                                           *)

\* Deck::new_shoe(arg)
InitDeck ==
    /\ NoPlayer
    /\ arg \in 0..MaxDecks
    /\ stack = new_shoe(arg)
    /\ drawn = <<>>
    /\ ret = NotCalled

\* deck.draw()
Draw ==
    /\ stack' = Deck_draw(stack).stack
    /\ ret' = Deck_draw(stack).ret
    /\ drawn' = IF ret'.some THEN Append(drawn, ret'.card) ELSE drawn
    /\ UNCHANGED <<vars, arg>>

SpecDeck == InitDeck /\ [][Draw]_<<vars, others>>

----------------------------------------------------------------------------
(* Vocabulary of the properties.  In a step, outcome' describes the call   *)
(* the step made and hands[outcome'.i] is the hand it was made on, as it   *)
(* was before the call; after a call other than an accepted split,         *)
(* hands'[1] is that hand as the call left it.                             *)

\* the lower bound of a hand's value: the Hard total or the lower Soft total
LowerBound(h) == value(h).lower

\* the legality predicate the source offers for operation op of the type
\* called through (Hand has no split predicate: Player's is the only one)
CanOp(op, via, h) ==
    CASE op = "hit" -> IF via = "Hand" THEN can_hit(h) ELSE can_hit_hand(h)
      [] op = "stand" -> IF via = "Hand" THEN can_stand(h) ELSE can_stand_hand(h)
      [] op = "double_down" ->
            IF via = "Hand" THEN can_double_down(h, rules)
            ELSE can_double_down_hand(h, rules)
      [] op = "split" -> can_split_hand(hands_len, rules, h)
      [] op = "surrender" ->
            IF via = "Hand" THEN can_surrender(h, rules)
            ELSE can_surrender_hand(h, rules)

\* the bet a Player function is passed is the bet of the hand, as its
\* caller owes it (Hand::split alone takes any bet)
BetArgOk(call, h) ==
    (call.via = "Player" /\ call.op \in {"split", "double_down"}) => call.bet = h.bet

\* both cards of a two-card hand have the same rank
IsPair(h) == Len(h.cards) = 2 /\ h.cards[1].rank = h.cards[2].rank

----------------------------------------------------------------------------
(* Properties *)

\* C1: once a hand is terminal, every call of hit, stand, double_down,
\* split or surrender on it is rejected and leaves its state, cards and bet
\* as they were.
C1_TerminalityAbsorbing ==
    [][ LET h == hands[outcome'.i] IN
        is_terminal(h) => (~outcome'.ok /\ hands' = << h >>) ]_vars

\* C2: an operation is accepted exactly when its legality predicate holds
\* of the hand it is called on.
C2_PredicateAgreesWithOperation ==
    [][ LET h == hands[outcome'.i] IN
        BetArgOk(outcome', h) =>
            (outcome'.ok <=> CanOp(outcome'.op, outcome'.via, h)) ]_vars

\* C3: under a rule set without surrender, can_surrender is false of every
\* non-terminal hand, and a call of surrender is rejected and leaves the
\* hand's state and bet as they were.
C3_NoSurrenderUnderPolicyNone ==
    [][ LET h == hands[outcome'.i] IN
        ~rules.can_surrender =>
            /\ \A k \in 1..Len(hands) :
                  ~is_terminal(hands[k]) =>
                      /\ ~can_surrender(hands[k], rules)
                      /\ ~can_surrender_hand(hands[k], rules)
            /\ outcome'.op = "surrender" =>
                  (~outcome'.ok /\ hands' = << h >>) ]_vars

\* C4: every accepted surrender leaves the hand Surrendered with half its
\* previous bet, and every accepted double-down leaves it DoubledDown with
\* twice its previous bet, through Hand and through Player alike.
C4_SurrenderHalvesDoubleDownDoubles ==
    [][ LET h == hands[outcome'.i] IN
        outcome'.ok =>
            /\ outcome'.op = "surrender" =>
                  (hands'[1].state = "Srndr" /\ hands'[1].bet * 2 = h.bet)
            /\ outcome'.op = "double_down" =>
                  (hands'[1].state = "DDown" /\ hands'[1].bet = h.bet * 2) ]_vars

\* C5: an accepted hit, stand or split leaves the bet of the hand it was
\* applied to as it was; an accepted stand also leaves the cards as they
\* were and changes nothing but the state, which becomes Stand.
C5_HitStandSplitKeepBet ==
    [][ LET h == hands[outcome'.i] IN
        outcome'.ok =>
            /\ outcome'.op \in {"hit", "stand", "split"} => hands'[1].bet = h.bet
            /\ outcome'.op = "stand" =>
                  /\ hands' = << [cards |-> h.cards, bet |-> h.bet, state |-> "Stand"] >>
                  /\ hands_len' = hands_len
                  /\ rules' = rules ]_vars

\* C5 witness: a stand was accepted on a hand that had been hit, of a
\* player who had split.
C5_Witness ==
    /\ outcome.op = "stand" /\ outcome.ok
    /\ hands[1].state = "Stand"
    /\ Len(hands[1].cards) = 3
    /\ hands_len >= 2

\* C6: a split of a two-card pair with draw cards c1 and c2 leaves the
\* original hand with its first card and c1, the new hand with the original
\* second card and c2, and both hands with the bet the original had.
C6_SplitCardsAndBets ==
    [][ LET h == hands[outcome'.i] IN
        (outcome'.op = "split" /\ outcome'.ok /\ IsPair(h)) =>
            /\ Len(hands') = 2
            /\ hands'[1].cards = << h.cards[1], outcome'.c1 >>
            /\ hands'[2].cards = << h.cards[2], outcome'.c2 >>
            /\ hands'[1].bet = h.bet
            /\ hands'[2].bet = h.bet ]_vars

C8_SplitAcesLocked ==
    [][ LET h == hands[outcome'.i]
            locked == h.cards[1].rank = "Ace" /\ ~rules.can_play_slit_aces
        IN
        (outcome'.op = "split" /\ outcome'.ok /\ IsPair(h)) =>
            \A k \in 1..2 :
                IF locked
                THEN /\ hands'[k].state = "SpltA"
                     /\ ~can_hit(hands'[k])
                     /\ ~can_double_down(hands'[k], rules)
                ELSE hands'[k].state = "Split" ]_vars

\* C9: under a rule set without double-after-split, can_double_down is
\* false of every hand in state Split and a double_down on it is rejected.
C9_NoDoubleAfterSplit ==
    [][ LET h == hands[outcome'.i] IN
        (~rules.das /\ h.state = "Split") =>
            /\ ~can_double_down(h, rules)
            /\ ~can_double_down_hand(h, rules)
            /\ outcome'.op = "double_down" => ~outcome'.ok ]_vars

\* C10: can_double_down is false of every hand of three or more cards, and
\* a double_down is accepted on hands of two cards alone (double_down
\* leaves the cards as they are, so the hand it left shows the count).
C10_DoubleDownOnlyOnTwoCards ==
    /\ \A k \in 1..Len(hands) :
          Len(hands[k].cards) >= 3 =>
              /\ ~can_double_down(hands[k], rules)
              /\ ~can_double_down_hand(hands[k], rules)
    /\ (outcome.op = "double_down" /\ outcome.ok) => Len(hands[1].cards) = 2


\* the Hard total of hand h, or one of the two bounds of its Soft value, is
\* a member of the double-down allow-list of the rules
TotalAllowed(h) ==
    \E v \in {value(h).lower, value(h).upper} :
        \E k \in 1..Len(rules.double_down_whitelist) :
            rules.double_down_whitelist[k] = v

\* C11: of a Fresh hand of two cards can_double_down is true exactly when
\* its Hard total or one of its two Soft bounds is in the allow-list, and
\* a double_down on it is then accepted, doubles the bet and leaves the
\* hand in the terminal state DDown with its cards as they were.
C11_DoubleDownOnAllowedTotal ==
    [][ LET h == hands[outcome'.i] IN
        (h.state = "Fresh" /\ Len(h.cards) = 2) =>
            /\ can_double_down(h, rules) <=> TotalAllowed(h)
            /\ can_double_down_hand(h, rules) <=> TotalAllowed(h)
            /\ (/\ TotalAllowed(h)
                /\ outcome'.op = "double_down"
                /\ BetArgOk(outcome', h)) =>
                    /\ outcome'.ok
                    /\ hands' = << [cards |-> h.cards, bet |-> 2 * h.bet,
                                    state |-> "DDown"] >>
                    /\ is_terminal(hands'[1]) ]_vars

\* a double_down was accepted on a Fresh soft hand that the allow-list
\* admits for its upper bound alone
C11_Witness ==
    /\ outcome.op = "double_down" /\ outcome.ok
    /\ hands_len = 1
    /\ hands[1].state = "DDown"
    /\ Len(hands[1].cards) = 2
    /\ value(hands[1]).kind = "Soft"
    /\ Contains(rules.double_down_whitelist, value(hands[1]).upper)
    /\ ~Contains(rules.double_down_whitelist, value(hands[1]).lower)


\* C12: a rule set built with an empty allow-list passes validation and
\* permits unrestricted doubling: can_double_down is true of every Fresh
\* hand of two cards whatever its total.
C12_EmptyAllowListUnrestricted ==
    rules.double_down_whitelist = <<>> =>
        \A k \in 1..Len(hands) :
            (hands[k].state = "Fresh" /\ Len(hands[k].cards) = 2) =>
                /\ can_double_down(hands[k], rules)
                /\ can_double_down_hand(hands[k], rules)

\* C13: a hand in state DDown takes exactly one more card: a hit on it is
\* accepted while it has two cards and leaves it with three, a hit on it
\* with three cards is rejected, and stand, split and surrender on it are
\* rejected.
C13_DoubledDownTakesOneCard ==
    [][ LET h == hands[outcome'.i] IN
        h.state = "DDown" =>
            /\ (outcome'.op = "hit" /\ Len(h.cards) = 2) =>
                    (outcome'.ok /\ Len(hands'[1].cards) = 3)
            /\ (outcome'.op = "hit" /\ Len(h.cards) >= 3) => ~outcome'.ok
            /\ outcome'.op \in {"stand", "split", "surrender"} =>
                    ~outcome'.ok ]_vars

\* C14: a split is accepted only on a hand of two cards of equal rank
\* while the player holds fewer hands than max_hands, and the number of
\* hands the player holds never exceeds max_hands.
C14_SplitWithinMaxHands ==
    [][ LET h == hands[outcome'.i] IN
        /\ (outcome'.op = "split" /\ outcome'.ok) =>
                (IsPair(h) /\ hands_len < rules.max_hands)
        /\ hands_len' <= rules.max_hands ]_vars


\* C18: the cards of a hand are never empty.  From a hand of two cards,
\* every hand a call leaves has at least two cards, an accepted hit makes
\* the cards of the hand one more, every other call leaves their number
\* as it was, and Hand::split puts card1 in the place of the last card.
C18_CardsNeverShrink ==
    [][ LET h == hands[outcome'.i] IN
        /\ \A k \in 1..Len(hands') : Len(hands'[k].cards) >= 2
        /\ Len(hands'[1].cards) >= Len(h.cards)
        /\ (outcome'.op = "hit" /\ outcome'.ok) =>
                Len(hands'[1].cards) = Len(h.cards) + 1
        /\ ~(outcome'.op = "hit" /\ outcome'.ok) =>
                Len(hands'[1].cards) = Len(h.cards)
        /\ (outcome'.op = "split" /\ outcome'.ok /\ outcome'.via = "Hand") =>
                /\ SubSeq(hands'[1].cards, 1, Len(h.cards) - 1)
                       = SubSeq(h.cards, 1, Len(h.cards) - 1)
                /\ hands'[1].cards[Len(h.cards)] = outcome'.c1 ]_vars

\* Hand::split was accepted on a hand of three cards, which still has
\* three, the last of them the card passed as card1
C18_Witness ==
    /\ outcome.op = "split" /\ outcome.ok /\ outcome.via = "Hand"
    /\ Len(hands[1].cards) = 3
    /\ hands[1].cards[3] = outcome.c1
    /\ Len(hands[2].cards) = 2


\* the points of a rank: 1 for an Ace, the face value of Two..Nine, 10 for
\* Ten, Jack, Queen and King
PointsOf(rank) ==
    LET k == CHOOSE n \in 1..Len(RankOrder) : RankOrder[n] = rank
    IN  IF k > 10 THEN 10 ELSE k

\* the sum of the points of the first n of the cards
RECURSIVE PointSum(_, _)
PointSum(cards, n) ==
    IF n = 0 THEN 0 ELSE PointSum(cards, n - 1) + PointsOf(cards[n].rank)

\* C15: the value of a hand without an Ace is Hard(s), the value of a hand
\* with an Ace is Soft{s, s + 10} however many Aces it has, s the sum of
\* the points of its cards with every Ace counted as 1; this is so of the
\* cards a hand has after every hit and every split.
C15_ValueIsPointSum ==
    \A k \in 1..Len(hands) :
        LET h == hands[k]
            s == PointSum(h.cards, Len(h.cards))
        IN  IF \E n \in 1..Len(h.cards) : h.cards[n].rank = "Ace"
            THEN value(h) = [kind |-> "Soft", lower |-> s, upper |-> s + 10]
            ELSE value(h) = [kind |-> "Hard", lower |-> s, upper |-> s]

\* a hit left a hand of three cards, two of them Aces, with a face card
C15_Witness ==
    /\ outcome.op = "hit" /\ outcome.ok
    /\ Len(hands[1].cards) = 3
    /\ hands[1].cards[1].rank = "Ace"
    /\ hands[1].cards[2].rank = "Queen"
    /\ hands[1].cards[3].rank = "Ace"
    /\ value(hands[1]) = [kind |-> "Soft", lower |-> 12, upper |-> 22]


\* C16: RuleSet::new returns the error of the first invariant its
\* arguments violate, in the order deck count (>= 1), player count (>= 1),
\* bet range (0 < min <= max), max hands (>= 2), allow-list (values in
\* 3..20), and then no RuleSet.
C16_FirstViolatedInvariantReported ==
    ret # NotCalled =>
        LET first ==
                IF arg.decks < 1 THEN "InvalidDeckNumer"
                ELSE IF arg.players < 1 THEN "InvalidPlayerNumber"
                ELSE IF ~(0 < arg.min_bet /\ arg.min_bet <= arg.max_bet)
                     THEN "InvalidBetRange"
                ELSE IF arg.max_hands < 2 THEN "InvalidMaxHands"
                ELSE IF \E k \in 1..Len(arg.double_down_whitelist) :
                            arg.double_down_whitelist[k] \notin 3..20
                     THEN "InvalidDoubleDownWhitelist"
                ELSE "None"
        IN  first # "None" => ret = [ok |-> FALSE, err |-> first]

\* C17: every RuleSet that RuleSet::new returns has decks >= 1,
\* players >= 1, 0 < min_bet <= max_bet, max_hands >= 2 and an allow-list
\* of values in 3..20; a min_bet of zero or less is rejected, with
\* InvalidBetRange when the deck and player counts are valid.
C17_OkRuleSetsAreValid ==
    ret # NotCalled =>
        /\ ret.ok =>
              /\ ret.value.decks >= 1
              /\ ret.value.players >= 1
              /\ ret.value.min_bet > 0
              /\ ret.value.min_bet <= ret.value.max_bet
              /\ ret.value.max_hands >= 2
              /\ \A k \in 1..Len(ret.value.double_down_whitelist) :
                    ret.value.double_down_whitelist[k] \in 3..20
        /\ arg.min_bet <= 0 =>
              /\ ~ret.ok
              /\ (arg.decks >= 1 /\ arg.players >= 1) =>
                    ret.err = "InvalidBetRange"


\* C19: Card::try_from of a byte succeeds exactly when its two top bits
\* are zero and its rank field, bits 2..5, is at most 12; the card then
\* has the suit numbered by the low two bits and the rank numbered by the
\* rank field, no other byte decodes to the same card, and the bytes 0..51
\* decode to 52 different cards.  A byte with a top bit set gives
\* ParseCardError, one without and a rank field of 13..15 gives
\* ParseRankError, and none gives ParseSuitError.
C19_ByteDecoding ==
    ret # NotCalled =>
        LET top   == arg \div 64
            field == (arg \div 4) % 16
            low   == arg % 4
        IN  /\ ret.ok <=> (top = 0 /\ field <= 12)
            /\ ret.ok =>
                  /\ ret.value = [suit |-> SuitOrder[low + 1],
                                  rank |-> RankOrder[field + 1]]
                  /\ \A b \in Bytes \ {arg} :
                        Card_try_from(b) # ret
            /\ top # 0 => ret = [ok |-> FALSE, err |-> "ParseCardError"]
            /\ (top = 0 /\ field \in 13..15) =>
                  ret = [ok |-> FALSE, err |-> "ParseRankError"]
            /\ ret # [ok |-> FALSE, err |-> "ParseSuitError"]
            /\ \A b \in 0..51 : Card_try_from(b).ok
            /\ Cardinality({ Card_try_from(b) : b \in 0..51 }) = 52

\* the byte 51 was decoded, to the King of Spades
C19_Witness ==
    /\ arg = 51
    /\ ret = [ok |-> TRUE, value |-> [suit |-> "Spades", rank |-> "King"]]


\* the cards left in the shoe followed by the cards drawn, last drawn first
LeftAndDrawn ==
    stack \o [ k \in 1..Len(drawn) |-> drawn[Len(drawn) + 1 - k] ]

\* C20: a shoe built for n decks has 52 * n cards, each of the 52 cards n
\* times, and at any time the cards left and the cards drawn are together
\* the shoe as built.  A draw from a shoe with cards returns its last card,
\* removes that card alone and makes cards_left one less; a draw returns
\* None exactly when the shoe is empty, and leaves it empty.
C20_ShoeAndDraws ==
    /\ [](/\ LeftAndDrawn = new_shoe(arg)
          /\ cards_left(stack) + Len(drawn) = 52 * arg
          /\ drawn = <<>> => cards_left(stack) = 52 * arg
          /\ \A su \in Suits, ra \in Ranks :
                Cardinality({ k \in 1..Len(LeftAndDrawn) :
                                LeftAndDrawn[k] = [suit |-> su, rank |-> ra] }) = arg)
    /\ [][ /\ ret'.some <=> stack # <<>>
           /\ stack # <<>> =>
                 /\ ret'.card = stack[Len(stack)]
                 /\ stack' = SubSeq(stack, 1, Len(stack) - 1)
                 /\ cards_left(stack') = cards_left(stack) - 1
           /\ stack = <<>> => stack' = <<>> ]_<<stack, drawn, ret>>

\* every card of a shoe of at least one deck has been drawn and a further
\* draw has returned None
C20_Witness ==
    /\ arg >= 1
    /\ stack = <<>>
    /\ Len(drawn) = SINGLE_DECK_SIZE * arg
    /\ ret = [some |-> FALSE]


\* C21: state and value stay consistent: a hand in a non-terminal state,
\* Fresh or Split, has a lower total of at most 21, and a hand in state
\* Busts has a lower total above 21.
C21_StateAgreesWithValue ==
    \A k \in 1..Len(hands) :
        /\ hands[k].state \in {"Fresh", "Split"} => LowerBound(hands[k]) <= 21
        /\ hands[k].state = "Busts" => LowerBound(hands[k]) > 21

\* C22: a Player function leaves the hand that the Hand method of the
\* same operation leaves for the same hand and arguments (for a split:
\* the two hands, the lock being the one Player::split computes).
C22_PlayerAgreesWithHand ==
    [][ LET h == hands[outcome'.i] IN
        (outcome'.via = "Player" /\ outcome'.ok /\ ~is_terminal(h)) =>
            /\ outcome'.op = "hit" => hands' = << Hand_hit(h, outcome'.c1) >>
            /\ outcome'.op = "stand" => hands' = << Hand_stand(h) >>
            /\ outcome'.op = "surrender" => hands' = << Hand_surrender(h) >>
            /\ outcome'.op = "double_down" => hands' = << Hand_double_down(h) >>
            /\ outcome'.op = "split" =>
                    hands' = Hand_split(h, outcome'.c1, outcome'.c2, outcome'.bet,
                                        split_state(h, rules) = "SpltA") ]_vars


\* C23: a hand cannot be hit for ever.  Of a hand that began as two cards
\* and was only ever hit: a hit is accepted on it at most 20 times, the hit
\* that takes its lower total above 21 leaves it in the terminal state
\* Busts, every hit on it from then on is rejected, and a hit on it at a
\* lower total of exactly 21 is still accepted.
C23_HittingEndsInBusts ==
    [][ LET h == hands[1] IN
        /\ outcome'.ok => Len(h.cards) - 2 < 20
        /\ (outcome'.ok /\ LowerBound(hands'[1]) > 21) =>
                /\ hands'[1].state = "Busts"
                /\ is_terminal(hands'[1])
        /\ LowerBound(h) > 21 => (~outcome'.ok /\ hands' = << h >>)
        /\ (~is_terminal(h) /\ LowerBound(h) = 21) => outcome'.ok ]_vars


\* the weight of a rank in the count: +1 for Two..Six, -1 for Ace and for
\* Ten, Jack, Queen and King, 0 for Seven..Nine
WeightOf(rank) ==
    LET k == CHOOSE n \in 1..Len(RankOrder) : RankOrder[n] = rank
    IN  IF k \in 2..6 THEN 1 ELSE IF k \in 7..9 THEN 0 ELSE 0 - 1

\* the sum of the weights of the first n of the cards: the cards of
\* weight +1 less the cards of weight -1
WeightSum(cards, n) ==
    Cardinality({ k \in 1..n : WeightOf(cards[k].rank) = 1 })
        - Cardinality({ k \in 1..n : WeightOf(cards[k].rank) = 0 - 1 })

\* C24: mega_true_count of a shoe as built is 0, whatever the number of
\* decks, and at any time it is minus the sum of the weights of the cards
\* drawn; a draw that returns a card changes it by minus the weight of
\* that card and a draw that returns None leaves it as it was.
C24_CountConserved ==
    /\ [](/\ mega_true_count(stack) = 0 - WeightSum(drawn, Len(drawn))
          /\ drawn = <<>> => mega_true_count(stack) = 0)
    /\ [][ IF ret'.some
           THEN mega_true_count(stack')
                    = mega_true_count(stack) - WeightOf(ret'.card.rank)
           ELSE mega_true_count(stack') = mega_true_count(stack)
         ]_<<stack, drawn, ret>>

\* cards have been drawn and the count of the cards left is not 0
C24_Witness ==
    /\ ret # NotCalled
    /\ ret.some
    /\ Len(drawn) >= 2
    /\ mega_true_count(stack) = 2
    /\ WeightSum(drawn, Len(drawn)) = 0 - 2

=============================================================================
